---- MODULE Spec2Model ----
(***************************************************************************)
(* Debt ledger of smartexpense_server: friend links, split expenses, the   *)
(* debt records derived from them, manual debts and the debt status        *)
(* transitions.  Amounts are whole cents.  Every request handler is one    *)
(* action; `resp` holds the request just handled and its answer.  Where    *)
(* requests overlap, createSplitExpense and the debt status routes are     *)
(* also given await by await, with `inflight` holding the requests that    *)
(* are between two awaits.                                                 *)
(***************************************************************************)
EXTENDS Integers, Sequences, FiniteSets

VARIABLES friends, expenses, debts, notifications, now, resp, calc, users, req,
          inflight

vars == <<friends, expenses, debts, notifications, now, resp, calc, users, req,
          inflight>>

---------------------------------------------------------------------------
(* Bounds of the model *)

\* the clock: every write that stamps paidAt = new Date() takes one tick
MaxClock == 2
\* entries in the splits list of one request
MaxSplits == 2
\* manual debt records in one run of SpecDebt
MaxDebts == 1
\* share calculator: largest total (cents) and participant count
MaxTotal == 40
MaxN == 4

---------------------------------------------------------------------------
(* Identifiers and their text *)

Accounts == {"u1", "u2", "u3"}
\* a well-formed ObjectId that names no account
GhostId == "g0"
ObjectIds == Accounts \cup {GhostId}
NoId == "none"

\* The text of an id as a client sends it: 24 hex digits in lower or upper
\* case name the same ObjectId.
Forms == {"lower", "upper"}
IdTexts == [id : ObjectIds, form : Forms]
InvalidText == [id |-> NoId, form |-> "invalid"]
NoText == [id |-> NoId, form |-> "absent"]
SelfText == [id |-> NoId, form |-> "self"]

\* ObjectId.prototype.toString(): the lower-case hex text
ToString(oid) == [id |-> oid, form |-> "lower"]
\* mongoose.Types.ObjectId.isValid
IsValidObjectId(t) == t.form \in Forms
\* the schema's cast of a text to the ObjectId it names
CastObjectId(t) == t.id
\* User.findById / populate: the account, or null
UserExists(oid) == oid \in users

---------------------------------------------------------------------------
(* Share calculator *)

\* a calculator that truncates to the cent instead of rounding
Floor2(total, people) == {total \div people}

\* parseFloat((total / people).toFixed(2)) in cents.  toFixed rounds the
\* binary double to the nearest cent; a quotient that is a decimal tie lies
\* on either side of the tie as a double, so both neighbours are outcomes.
Round2(total, people) ==
  LET q == total \div people
      r == total % people
  IN  IF 2 * r < people THEN {q}
      ELSE IF 2 * r > people THEN {q + 1}
      ELSE {q, q + 1}

---------------------------------------------------------------------------
(* Responses *)

\* the request just handled (handler, requester, target document) and the
\* status code and message of its answer
\* `warnings` lists the friendIds of warnings.debtErrors
NoResp ==
  [op |-> "none", user |-> NoId, id |-> 0, code |-> 0, msg |-> "", warnings |-> <<>>]

Answer(op, u, id, code, msg) ==
  [op |-> op, user |-> u, id |-> id, code |-> code, msg |-> msg, warnings |-> <<>>]

\* no body of a POST /split-expenses request on record
NoReq == [kind |-> "none"]

\* the createSplitExpense requests that may be between two awaits, and a
\* request that has not arrived
Slots == {1, 2}
IdleFlight ==
  [pc |-> "idle", by |-> NoId, total |-> 0, paidBy |-> NoText, splits |-> <<>>,
   splitType |-> "none", validated |-> <<>>, eid |-> 0, k |-> 0, warnings |-> <<>>,
   code |-> 0]
NoFlights == [s \in Slots |-> IdleFlight]

IdleCalc == [pc |-> "idle", T |-> 0, n |-> 0, share |-> 0]

\* A Friend document.  addFriend refuses a second document for the same
\* (user, friendUser), so the pair identifies the document.
\* Its userId is the friend's handle, "name@myexpense", not an ObjectId text.
HandleOf(oid) == [id |-> oid, form |-> "handle"]

FriendDoc(u, f) ==
  [user |-> u, friendUser |-> f, userId |-> HandleOf(f), status |-> "active"]

\* the accounts are registered and u1 has added u2 and u3 as friends
Init ==
  /\ friends = {FriendDoc("u1", "u2"), FriendDoc("u1", "u3")}
  /\ expenses = <<>>
  /\ debts = <<>>
  /\ notifications = <<>>
  /\ now = 0
  /\ resp = NoResp
  /\ calc = IdleCalc
  /\ users = Accounts
  /\ req = NoReq
  /\ inflight = NoFlights

---------------------------------------------------------------------------
(* Friend links *)

\* the _id of a Friend document, and an _id that names none
FriendIdOf(doc) == <<doc.user, doc.friendUser>>
BogusFriendId == <<NoId, NoId>>

---------------------------------------------------------------------------
(* createSplitExpense *)

Totals == {10}
\* explicit shares a client can send: nothing, or half of the total
Amounts == {0, 5}
SplitTypes == {"equal", "exact"}

\* one entry of req.body.splits
FriendSplit(fid, a) == [kind |-> "friend", friendId |-> fid, email |-> FALSE, amount |-> a]
EmailSplit(a) == [kind |-> "email", friendId |-> BogusFriendId, email |-> TRUE, amount |-> a]

\* Friend.findOne({_id, user, status: 'active'}).populate('friendUser')
FindFriend(u, fid) ==
  {d \in friends : FriendIdOf(d) = fid /\ d.user = u /\ d.status = "active"}

\* the id the resolver extracts from a Friend document: the populated
\* friendUser (method 1), else the document's userId field (method 3)
ActualUserId(friend) ==
  IF UserExists(friend.friendUser) THEN ToString(friend.friendUser)
  ELSE friend.userId

\* User.findById(actualUserId) rejects with a CastError for a text that is
\* no ObjectId, which ends the request in the outer catch
ResolveThrows(u, split) ==
  /\ split.kind = "friend"
  /\ \E friend \in FindFriend(u, split.friendId) :
       ~IsValidObjectId(ActualUserId(friend))

\* the identity resolver for one entry: the validated entry, or none
ResolveSplit(u, split) ==
  IF split.kind = "friend" THEN
    LET found == FindFriend(u, split.friendId)
    IN  IF found = {} THEN <<>>
        ELSE LET friend == CHOOSE d \in found : TRUE
                 actualUserId == ActualUserId(friend)
             IN  IF ~IsValidObjectId(actualUserId)
                      \/ ~UserExists(CastObjectId(actualUserId)) THEN <<>>
                 ELSE <<[friendId |-> split.friendId,
                         userId |-> CastObjectId(actualUserId),
                         amount |-> split.amount]>>
  ELSE IF split.email THEN
    <<[friendId |-> BogusFriendId, userId |-> NoId, amount |-> split.amount]>>
  ELSE <<>>

RECURSIVE ValidatedSplits(_, _)
ValidatedSplits(u, splits) ==
  IF splits = <<>> THEN <<>>
  ELSE ResolveSplit(u, Head(splits)) \o ValidatedSplits(u, Tail(splits))

\* an equal split that leaves the amounts as they were sent
KeepShares(validated, per) == validated

\* the equal split: every entry gets the per-person amount
EqualShares(validated, per) ==
  [i \in 1..Len(validated) |-> [validated[i] EXCEPT !.amount = per]]

\* const paidByUserId = paidBy && paidBy !== 'self' ? paidBy : userId
PaidByUserId(paidBy, u) ==
  IF paidBy = NoText \/ paidBy = SelfText THEN ToString(u) ELSE paidBy

\* a loop that always makes the requester the creditor
RequesterIsCreditor(paidByText, u, p) ==
  [creditor |-> ToString(u), debtor |-> ToString(p)]

\* creditor and debtor of one participant's debt, as the texts the loop holds
DebtDirection(paidByText, u, p) ==
  IF paidByText = ToString(u) THEN [creditor |-> ToString(u), debtor |-> ToString(p)]
  ELSE IF paidByText = ToString(p) THEN [creditor |-> ToString(p), debtor |-> ToString(u)]
  ELSE [creditor |-> paidByText, debtor |-> ToString(p)]

\* smallest amount the Debt schema accepts, in cents
MinDebtAmount == 1

\* a debt record that is already settled and names no split event
UnlinkedDebt(paidByText, u, v, eid, splitType) ==
  LET dir == DebtDirection(paidByText, u, v.userId)
  IN  [creditor |-> CastObjectId(dir.creditor), debtor |-> CastObjectId(dir.debtor),
       amount |-> v.amount, status |-> "paid", type |-> "manual",
       relatedExpenseId |-> 0, paidAt |-> 0, paymentMethod |-> "none",
       splitType |-> splitType, description |-> "as created", dueDate |-> 0]

\* new Debt({...}) for one validated entry
SplitDebt(paidByText, u, v, eid, splitType) ==
  LET dir == DebtDirection(paidByText, u, v.userId)
  IN  [creditor |-> CastObjectId(dir.creditor), debtor |-> CastObjectId(dir.debtor),
       amount |-> v.amount, status |-> "pending", type |-> "split",
       relatedExpenseId |-> eid, paidAt |-> 0, paymentMethod |-> "none",
       splitType |-> splitType, description |-> "as created", dueDate |-> 0]

\* debt.save() runs the schema validators
DebtValid(d) == d.amount >= MinDebtAmount

\* the entries of the debt loop that reach a successful save
DebtSaved(paidByText, u, v, eid, splitType) ==
  v.userId # NoId /\ DebtValid(SplitDebt(paidByText, u, v, eid, splitType))

\* the debt loop: the records it appends, in participant order
RECURSIVE SplitDebts(_, _, _, _, _)
SplitDebts(paidByText, u, validated, eid, splitType) ==
  IF validated = <<>> THEN <<>>
  ELSE (IF DebtSaved(paidByText, u, Head(validated), eid, splitType)
        THEN <<SplitDebt(paidByText, u, Head(validated), eid, splitType)>> ELSE <<>>)
       \o SplitDebts(paidByText, u, Tail(validated), eid, splitType)

\* a debt loop that keeps no account of the failed saves
NoDebtErrors(paidByText, u, validated, eid, splitType) == <<>>

\* debtErrors: the friendIds of the entries whose debt.save() failed
RECURSIVE DebtErrors(_, _, _, _, _)
DebtErrors(paidByText, u, validated, eid, splitType) ==
  IF validated = <<>> THEN <<>>
  ELSE (IF Head(validated).userId # NoId
           /\ ~DebtSaved(paidByText, u, Head(validated), eid, splitType)
        THEN <<Head(validated).friendId>> ELSE <<>>)
       \o DebtErrors(paidByText, u, Tail(validated), eid, splitType)

\* a notification loop that reaches nobody
NotifyNobody(u, validated, eid) == <<>>

\* the notification loop: one per account-linked entry other than the requester
RECURSIVE SplitNotifications(_, _, _)
SplitNotifications(u, validated, eid) ==
  IF validated = <<>> THEN <<>>
  ELSE (IF Head(validated).userId # NoId /\ Head(validated).userId # u
        THEN <<[userId |-> Head(validated).userId, senderId |-> u,
                type |-> "expense_created", relatedId |-> eid]>>
        ELSE <<>>)
       \o SplitNotifications(u, Tail(validated), eid)

\* expense.save() runs the SplitExpense schema: every split needs a friendId
ExpenseValid(validated) == \A i \in 1..Len(validated) : validated[i].userId # NoId

CreateSplitExpense(u, total, paidBy, splits, splitType) ==
  /\ UNCHANGED <<friends, calc, now, users, inflight>>
  /\ LET validated0 == ValidatedSplits(u, splits)
         paidByText == PaidByUserId(paidBy, u)
         eid == Len(expenses) + 1
     IN
     IF \E i \in 1..Len(splits) : ResolveThrows(u, splits[i]) THEN
       /\ resp' = Answer("createSplit", NoId, 0, 500, "failed")
       /\ UNCHANGED <<expenses, debts, notifications>>
     ELSE IF validated0 = <<>> THEN
       /\ resp' = Answer("createSplit", NoId, 0, 400, "no valid friends")
       /\ UNCHANGED <<expenses, debts, notifications>>
     ELSE
       \E per \in Round2(total, Len(validated0) + 1) :
         LET validated == IF splitType = "equal" THEN EqualShares(validated0, per)
                          ELSE validated0
             newDebts == SplitDebts(paidByText, u, validated, eid, splitType)
             newNotes == SplitNotifications(u, validated, eid)
         IN
         IF ~IsValidObjectId(paidByText) \/ ~ExpenseValid(validated) THEN
           /\ resp' = Answer("createSplit", NoId, 0, 500, "failed")
           /\ UNCHANGED <<expenses, debts, notifications>>
         ELSE
           /\ expenses' = Append(expenses,
                [createdBy |-> u, paidBy |-> CastObjectId(paidByText),
                 totalAmount |-> total,
                 splits |-> [i \in 1..Len(validated) |->
                               [friendId |-> validated[i].friendId,
                                amount |-> validated[i].amount]]])
           /\ debts' = debts \o newDebts
           /\ notifications' = notifications \o newNotes
           /\ resp' = [Answer("createSplit", u, eid, 201, "") EXCEPT
                         !.warnings = DebtErrors(paidByText, u, validated, eid, splitType)]

\* the splits lists a client can send
SplitInputs(u, splitType) ==
  LET amts == IF splitType = "equal" THEN {0} ELSE Amounts
      entries == {FriendSplit(FriendIdOf(d), a) : d \in {f \in friends : f.user = u}, a \in amts}
                 \cup {FriendSplit(BogusFriendId, a) : a \in amts}
                 \cup {EmailSplit(a) : a \in amts}
  IN  UNION {[1..n -> entries] : n \in 1..MaxSplits}

PaidByInputs ==
  {NoText, SelfText, InvalidText, ToString(GhostId)}
  \cup [id : Accounts, form : Forms]

---------------------------------------------------------------------------
(* Manual debts *)

DebtAmounts == {5}
DebtTypes == {"owe-me", "i-owe"}

ManualDebt(creditor, debtor, amount) ==
  [creditor |-> creditor, debtor |-> debtor, amount |-> amount,
   status |-> "pending", type |-> "manual", relatedExpenseId |-> 0,
   paidAt |-> 0, paymentMethod |-> "none", splitType |-> "none",
   description |-> "as created", dueDate |-> 0]

\* POST /debts with a friendId.  Its notification names relatedModel 'Debt',
\* which the Notification schema refuses, so none is stored.
CreateDebt(u, t, amount, type) ==
  /\ UNCHANGED <<friends, expenses, notifications, calc, users, req, now, inflight>>
  /\ IF ~IsValidObjectId(t) THEN
       /\ resp' = Answer("createDebt", NoId, 0, 400, "invalid id")
       /\ UNCHANGED debts
     ELSE IF ~UserExists(CastObjectId(t)) THEN
       /\ resp' = Answer("createDebt", NoId, 0, 404, "friend not found")
       /\ UNCHANGED debts
     ELSE IF ToString(CastObjectId(t)) = ToString(u) THEN
       /\ resp' = Answer("createDebt", NoId, 0, 400, "yourself")
       /\ UNCHANGED debts
     ELSE
       /\ debts' = Append(debts,
                     IF type = "owe-me" THEN ManualDebt(u, CastObjectId(t), amount)
                     ELSE ManualDebt(CastObjectId(t), u, amount))
       /\ resp' = Answer("createDebt", u, Len(debts) + 1, 201, "")

\* debtController.createManualDebt
CreateManualDebt(u, t, amount) ==
  /\ UNCHANGED <<friends, expenses, notifications, calc, users, req, now, inflight>>
  /\ IF ~IsValidObjectId(t) THEN
       /\ resp' = Answer("createManualDebt", NoId, 0, 400, "invalid id")
       /\ UNCHANGED debts
     ELSE IF ~DebtValid(ManualDebt(u, CastObjectId(t), amount)) THEN
       /\ resp' = Answer("createManualDebt", NoId, 0, 500, "failed")
       /\ UNCHANGED debts
     ELSE
       /\ debts' = Append(debts, ManualDebt(u, CastObjectId(t), amount))
       /\ resp' = Answer("createManualDebt", u, Len(debts) + 1, 201, "")

---------------------------------------------------------------------------
(* Debt status transitions *)

PaymentMethods == {"none", "upi"}

\* .populate('creditor') / .populate('debtor'): null for an id naming no account
Populated(oid) == UserExists(oid)

\* a route that asks nobody who they are
AnyAccount(debt, u) == TRUE

\* debt.creditor._id.toString() === req.user._id.toString()
IsCreditor(debt, u) == ToString(debt.creditor) = ToString(u)

\* debt.debtor._id.toString() === req.user._id.toString()
IsDebtor(debt, u) == ToString(debt.debtor) = ToString(u)

\* a route that never looks at the status
NeverPaid(debt) == FALSE

\* if (debt.status === 'paid')
AlreadyPaid(debt) == debt.status = "paid"

\* debt.status = 'paid'; debt.paidAt = new Date(); debt.paymentMethod if given
PaidDebt(debt, at, pm) ==
  [debt EXCEPT !.status = "paid", !.paidAt = at,
               !.paymentMethod = IF pm # "none" THEN pm ELSE @]

\* PATCH /debts/:id/settle (the creditor confirms the payment)
SettleDebt(u, d) ==
  /\ UNCHANGED <<friends, expenses, notifications, calc, users, req, inflight>>
  /\ IF ~Populated(debts[d].creditor) THEN
       /\ resp' = Answer("settle", u, d, 500, "failed")
       /\ UNCHANGED <<debts, now>>
     ELSE IF ~IsCreditor(debts[d], u) THEN
       /\ resp' = Answer("settle", u, d, 403, "only the creditor")
       /\ UNCHANGED <<debts, now>>
     ELSE IF AlreadyPaid(debts[d]) THEN
       /\ resp' = Answer("settle", u, d, 400, "already paid")
       /\ UNCHANGED <<debts, now>>
     ELSE
       /\ now < MaxClock
       /\ now' = now + 1
       /\ debts' = [debts EXCEPT ![d] = PaidDebt(@, now + 1, "none")]
       /\ resp' = Answer("settle", u, d, 200, "")

\* PATCH /debts/:id/mark-paid (the debtor says "I paid")
MarkPaid(u, d, pm) ==
  /\ UNCHANGED <<friends, expenses, notifications, calc, users, req, inflight>>
  /\ IF ~Populated(debts[d].creditor) \/ ~Populated(debts[d].debtor) THEN
       /\ resp' = Answer("markPaid", u, d, 500, "failed")
       /\ UNCHANGED <<debts, now>>
     ELSE IF ~IsDebtor(debts[d], u) THEN
       /\ resp' = Answer("markPaid", u, d, 403, "only the debtor")
       /\ UNCHANGED <<debts, now>>
     ELSE IF AlreadyPaid(debts[d]) THEN
       /\ resp' = Answer("markPaid", u, d, 400, "already paid")
       /\ UNCHANGED <<debts, now>>
     ELSE
       /\ now < MaxClock
       /\ now' = now + 1
       /\ debts' = [debts EXCEPT ![d] = PaidDebt(@, now + 1, pm)]
       /\ resp' = Answer("markPaid", u, d, 200, "")

\* debtController.markDebtAsPaid
MarkDebtAsPaid(u, d, pm) ==
  /\ UNCHANGED <<friends, expenses, notifications, calc, users, req, inflight>>
  /\ IF ToString(debts[d].debtor) # ToString(u) THEN
       /\ resp' = Answer("markDebtAsPaid", u, d, 403, "not authorized")
       /\ UNCHANGED <<debts, now>>
     ELSE IF debts[d].status = "paid" THEN
       /\ resp' = Answer("markDebtAsPaid", u, d, 400, "already paid")
       /\ UNCHANGED <<debts, now>>
     ELSE
       /\ now < MaxClock
       /\ now' = now + 1
       /\ debts' = [debts EXCEPT ![d] = PaidDebt(@, now + 1, pm)]
       /\ resp' = Answer("markDebtAsPaid", u, d, 200, "")

\* DELETE /debts/:id (the creditor cancels)
CancelDebt(u, d) ==
  /\ UNCHANGED <<friends, expenses, notifications, calc, users, req, now, inflight>>
  /\ IF ~Populated(debts[d].creditor) THEN
       /\ resp' = Answer("cancel", u, d, 500, "failed")
       /\ UNCHANGED debts
     ELSE IF ~IsCreditor(debts[d], u) THEN
       /\ resp' = Answer("cancel", u, d, 403, "only the creditor")
       /\ UNCHANGED debts
     ELSE
       /\ debts' = [debts EXCEPT ![d].status = "cancelled"]
       /\ resp' = Answer("cancel", u, d, 200, "")

---------------------------------------------------------------------------
(* updateSplitExpenseStatus *)

ExpenseStatuses == {"active", "settled", "cancelled"}

\* a filter that matches nothing
CascadeMatchNone(debt, e) == FALSE

\* a filter that matches every debt record
CascadeMatchAll(debt, e) == TRUE

\* the filter of Debt.updateMany
CascadeMatch(debt, e) == debt.relatedExpenseId = e /\ debt.status = "pending"

\* the update of Debt.updateMany applied to the whole collection
Cascade(e, status, at) ==
  [d \in 1..Len(debts) |->
     IF CascadeMatch(debts[d], e)
     THEN [debts[d] EXCEPT !.status = IF status = "settled" THEN "paid" ELSE "cancelled",
                           !.paidAt = IF status = "settled" THEN at ELSE 0]
     ELSE debts[d]]

\* a handler that lets every account update the event
AnyoneMay(expense, u) == TRUE

\* expense.createdBy or expense.paidBy is the requester
HasPermission(expense, u) ==
  \/ ToString(expense.createdBy) = ToString(u)
  \/ ToString(expense.paidBy) = ToString(u)

\* the paths of splitExpenseSchema
SchemaPaths == {"createdBy", "paidBy", "description", "totalAmount", "splits"}

\* the status path of a stored split event
StatusOf(expense) ==
  IF "status" \in DOMAIN expense THEN expense.status ELSE "absent"

\* doc[path] = value followed by doc.save(): a strict schema stores only its
\* own paths
StrictSet(doc, path, value) ==
  IF path \in SchemaPaths THEN [doc EXCEPT ![path] = value] ELSE doc

\* the SplitExpense schema has no status path: expense.status is not stored
UpdateSplitExpenseStatus(u, e, status) ==
  /\ UNCHANGED <<friends, notifications, calc, users, req, inflight>>
  /\ LET hasPermission == HasPermission(expenses[e], u)
         stamps == status = "settled" /\ \E d \in 1..Len(debts) : CascadeMatch(debts[d], e)
     IN
     IF ~hasPermission THEN
       /\ resp' = Answer("updateStatus", u, e, 403, status)
       /\ UNCHANGED <<debts, now, expenses>>
     ELSE
       /\ stamps => now < MaxClock
       /\ expenses' = [expenses EXCEPT ![e] = StrictSet(@, "status", status)]
       /\ now' = IF stamps THEN now + 1 ELSE now
       /\ debts' = IF status = "active" THEN debts ELSE Cascade(e, status, now + 1)
       /\ resp' = Answer("updateStatus", u, e, 200, status)

---------------------------------------------------------------------------
(* The share calculator on its own *)

InitShare ==
  /\ friends = {}
  /\ expenses = <<>>
  /\ debts = <<>>
  /\ notifications = <<>>
  /\ now = 0
  /\ resp = NoResp
  /\ calc \in [pc : {"input"}, T : 1..MaxTotal, n : 1..MaxN, share : {0}]
  /\ users = Accounts
  /\ req = NoReq
  /\ inflight = NoFlights

\* lines 141-146 of createSplitExpense for a total and n validated entries
EqualSplit ==
  /\ calc.pc = "input"
  /\ \E per \in Round2(calc.T, calc.n + 1) :
       calc' = [calc EXCEPT !.pc = "done", !.share = per]
  /\ UNCHANGED <<friends, expenses, debts, notifications, now, resp, users, req, inflight>>

NextShare == EqualSplit

SpecShare == InitShare /\ [][NextShare]_vars

---------------------------------------------------------------------------

\* The split-expense ledger: u1 and its friends, one split event per run,
\* its cascade, and the creditor's cancel of single debts.  The debtor's and
\* the creditor's payment routes run in SpecDebt.
Next ==
  \/ /\ expenses = <<>>
     /\ \E u \in Accounts, total \in Totals, paidBy \in PaidByInputs,
           splitType \in SplitTypes :
          \E splits \in SplitInputs(u, splitType) :
            CreateSplitExpense(u, total, paidBy, splits, splitType) /\ UNCHANGED req
  \/ \E u \in Accounts, e \in 1..Len(expenses), status \in ExpenseStatuses :
       UpdateSplitExpenseStatus(u, e, status)
  \/ \E u \in Accounts, d \in 1..Len(debts) : CancelDebt(u, d)

Spec == Init /\ [][Next]_vars

\* Manual debts and their status transitions, from an empty ledger.
InitDebt ==
  /\ friends = {}
  /\ expenses = <<>>
  /\ debts = <<>>
  /\ notifications = <<>>
  /\ now = 0
  /\ resp = NoResp
  /\ calc = IdleCalc
  /\ users = Accounts
  /\ req = NoReq
  /\ inflight = NoFlights

NextDebt ==
  \/ /\ Len(debts) < MaxDebts
     /\ \E u \in Accounts, t \in IdTexts \cup {InvalidText}, a \in DebtAmounts,
           type \in DebtTypes : CreateDebt(u, t, a, type)
  \/ /\ Len(debts) < MaxDebts
     /\ \E u \in Accounts, t \in IdTexts \cup {InvalidText}, a \in DebtAmounts :
          CreateManualDebt(u, t, a)
  \/ \E u \in Accounts, d \in 1..Len(debts) : SettleDebt(u, d)
  \/ \E u \in Accounts, d \in 1..Len(debts), pm \in PaymentMethods : MarkPaid(u, d, pm)
  \/ \E u \in Accounts, d \in 1..Len(debts), pm \in PaymentMethods :
       MarkDebtAsPaid(u, d, pm)
  \/ \E u \in Accounts, d \in 1..Len(debts) : CancelDebt(u, d)

SpecDebt == InitDebt /\ [][NextDebt]_vars

---------------------------------------------------------------------------
(* PUT /debts/:id *)

\* a route that edits a debt whatever its status
AnyStatus(debt) == TRUE

\* if (debt.status !== 'pending') the edit is refused
IsPending(debt) == debt.status = "pending"

\* the fields of the body, each of which may be left undefined
EditFields == {"amount", "description", "dueDate"}
NewAmounts == {0, 7}
NewDescriptions == {"edited"}
NewDueDates == {1}

EditBodies ==
  [sent : SUBSET EditFields, amount : NewAmounts,
   description : NewDescriptions, dueDate : NewDueDates]

\* PUT /debts/:id with amount, description and dueDate, each optional
UpdateDebt(u, d, body) ==
  /\ UNCHANGED <<friends, expenses, notifications, calc, users, req, now, inflight>>
  /\ IF ~Populated(debts[d].creditor) THEN
       /\ resp' = Answer("updateDebt", u, d, 500, "failed")
       /\ UNCHANGED debts
     ELSE IF ~IsCreditor(debts[d], u) THEN
       /\ resp' = Answer("updateDebt", u, d, 403, "only the creditor")
       /\ UNCHANGED debts
     ELSE IF ~IsPending(debts[d]) THEN
       /\ resp' = Answer("updateDebt", u, d, 400, "not pending")
       /\ UNCHANGED debts
     ELSE IF "amount" \in body.sent /\ body.amount <= 0 THEN
       /\ resp' = Answer("updateDebt", u, d, 400, "amount must be positive")
       /\ UNCHANGED debts
     ELSE
       /\ debts' = [debts EXCEPT
            ![d].amount = IF "amount" \in body.sent THEN body.amount ELSE @,
            ![d].description =
               IF "description" \in body.sent THEN body.description ELSE @,
            ![d].dueDate = IF "dueDate" \in body.sent THEN body.dueDate ELSE @]
       /\ resp' = Answer("updateDebt", u, d, 200, "")

\* the accounts whose requests the runs of the edit route follow
Editors == {"u1", "u2"}

\* u1 records what u2 owes it or what it owes u2; either of them settles,
\* cancels or edits.
NextUpdate ==
  \/ /\ Len(debts) < MaxDebts
     /\ \E a \in DebtAmounts, type \in DebtTypes :
          CreateDebt("u1", ToString("u2"), a, type)
  \/ \E u \in Editors, d \in 1..Len(debts) : SettleDebt(u, d)
  \/ \E u \in Editors, d \in 1..Len(debts) : CancelDebt(u, d)
  \/ \E u \in Editors, d \in 1..Len(debts), body \in EditBodies :
       UpdateDebt(u, d, body)

SpecUpdate == InitDebt /\ [][NextUpdate]_vars

---------------------------------------------------------------------------
(* The split request as a client sends it, friend links and account removal *)

\* POST /friends/add-friend with the friend's id as text
AddFriend(u, t) ==
  /\ UNCHANGED <<expenses, debts, notifications, now, calc, users, inflight>>
  /\ req' = NoReq
  /\ IF t = ToString(u) THEN
       /\ resp' = Answer("addFriend", u, 0, 400, "yourself")
       /\ UNCHANGED friends
     ELSE IF ~IsValidObjectId(t) THEN
       /\ resp' = Answer("addFriend", u, 0, 400, "invalid id")
       /\ UNCHANGED friends
     ELSE IF ~UserExists(u) \/ ~UserExists(CastObjectId(t)) THEN
       /\ resp' = Answer("addFriend", u, 0, 404, "user not found")
       /\ UNCHANGED friends
     ELSE IF \E d \in friends : d.user = u /\ d.friendUser = CastObjectId(t) THEN
       /\ resp' = Answer("addFriend", u, 0, 409, "already your friend")
       /\ UNCHANGED friends
     ELSE
       /\ friends' = friends \cup {FriendDoc(u, CastObjectId(t))}
       /\ resp' = Answer("addFriend", u, 0, 200, "")

\* DELETE /users/:id by the account itself: the User document goes, the
\* Friend documents that point to it stay
DeleteUser(u) ==
  /\ u \in users
  /\ users' = users \ {u}
  /\ resp' = Answer("deleteUser", u, 0, 200, "")
  /\ req' = NoReq
  /\ UNCHANGED <<friends, expenses, debts, notifications, now, calc, inflight>>

\* totalAmount as it arrives: a number, a number followed by other
\* characters ("10abc"), other characters only ("abc"), or nothing
NumberText(v) == [form |-> "number", value |-> v]
PrefixText(v) == [form |-> "prefix", value |-> v]
GarbageText == [form |-> "garbage", value |-> 0]
AbsentText == [form |-> "absent", value |-> 0]

\* parseFloat reads the leading number and ignores what follows it
IsNaN(t) == t.form \notin {"number", "prefix"}
ParseFloat(t) == t.value

\* !description || !totalAmount || !splits || splits.length === 0
MissingFields(body) ==
  \/ ~body.description
  \/ body.totalAmount.form = "absent"
  \/ (body.totalAmount.form = "number" /\ body.totalAmount.value = 0)
  \/ body.splits = <<>>

SplitBody(description, totalAmount, paidBy, splits, splitType) ==
  [kind |-> "split", description |-> description, totalAmount |-> totalAmount,
   paidBy |-> paidBy, splits |-> splits, splitType |-> splitType]

\* createSplitExpense from the request body on
PostSplitExpense(u, body) ==
  /\ req' = [kind |-> "split", by |-> u, body |-> body]
  /\ IF MissingFields(body) THEN
       /\ resp' = Answer("createSplit", NoId, 0, 400, "missing required fields")
       /\ UNCHANGED <<friends, expenses, debts, notifications, now, calc, users, inflight>>
     ELSE IF IsNaN(body.totalAmount) \/ ParseFloat(body.totalAmount) <= 0 THEN
       /\ resp' = Answer("createSplit", NoId, 0, 400, "total must be positive")
       /\ UNCHANGED <<friends, expenses, debts, notifications, now, calc, users, inflight>>
     ELSE CreateSplitExpense(u, ParseFloat(body.totalAmount), body.paidBy,
                             body.splits, body.splitType)

\* the account whose requests the runs follow
Requesters == {"u1"}

\* well-formed bodies: ten cents or one cent, paid by the requester or by u2
RequestTotals == {NumberText(10), NumberText(1)}
RequestPayers == {NoText, ToString("u2")}

WellFormedBodies(u) ==
  UNION {{SplitBody(TRUE, total, paidBy, splits, splitType) :
            total \in RequestTotals, paidBy \in RequestPayers,
            splits \in SplitInputs(u, splitType)} : splitType \in SplitTypes}

\* bodies with one thing wrong: no description, no list, or a bad total
BadTotals == {AbsentText, NumberText(0), NumberText(-5), GarbageText, PrefixText(10)}

MalformedBodies(u) ==
  LET one == {splits \in SplitInputs(u, "equal") : Len(splits) = 1}
  IN  {SplitBody(FALSE, NumberText(10), NoText, splits, "equal") : splits \in one}
      \cup {SplitBody(TRUE, NumberText(10), NoText, <<>>, "equal")}
      \cup {SplitBody(TRUE, total, NoText, splits, "equal") :
              total \in BadTotals, splits \in one}

InitRequest ==
  /\ friends = {}
  /\ expenses = <<>>
  /\ debts = <<>>
  /\ notifications = <<>>
  /\ now = 0
  /\ resp = NoResp
  /\ calc = IdleCalc
  /\ users = Accounts
  /\ req = NoReq
  /\ inflight = NoFlights

\* One requester: it adds friends, other accounts are removed, and then it
\* sends one split request.
NextRequest ==
  \/ /\ req = NoReq
     /\ \E u \in Requesters, t \in IdTexts \cup {InvalidText} : AddFriend(u, t)
  \/ /\ req = NoReq
     /\ \E u \in Accounts \ Requesters : DeleteUser(u)
  \/ /\ req = NoReq
     /\ \E u \in Requesters :
          \E body \in WellFormedBodies(u) \cup MalformedBodies(u) :
            PostSplitExpense(u, body)

SpecRequest == InitRequest /\ [][NextRequest]_vars

---------------------------------------------------------------------------
(* createSplitExpense await by await *)

\* The handler gives way to other requests at every await.  The resolver and
\* the share computation only read friend links and accounts, which no action
\* of this specification changes, so they are one step; every save is a step
\* of its own.

Active(f) == f.pc \in {"event", "debts", "notes", "respond"}

SameContent(f, g) ==
  /\ f.by = g.by /\ f.total = g.total /\ f.paidBy = g.paidBy
  /\ f.splits = g.splits /\ f.splitType = g.splitType

\* lines 12-157: validation, resolver, shares, payer lookup
Begin(s, u, total, paidBy, splits, splitType) ==
  /\ inflight[s].pc = "idle"
  /\ UNCHANGED <<friends, expenses, debts, notifications, now, calc, users, req>>
  /\ LET validated0 == ValidatedSplits(u, splits)
         paidByText == PaidByUserId(paidBy, u)
         arrived == [IdleFlight EXCEPT !.by = u, !.total = total, !.paidBy = paidBy,
                                       !.splits = splits, !.splitType = splitType]
     IN
     IF \E i \in 1..Len(splits) : ResolveThrows(u, splits[i]) THEN
       /\ resp' = Answer("createSplit", NoId, 0, 500, "failed")
       /\ inflight' = [inflight EXCEPT ![s] = [arrived EXCEPT !.pc = "done", !.code = 500]]
     ELSE IF validated0 = <<>> THEN
       /\ resp' = Answer("createSplit", NoId, 0, 400, "no valid friends")
       /\ inflight' = [inflight EXCEPT ![s] = [arrived EXCEPT !.pc = "done", !.code = 400]]
     ELSE IF ~IsValidObjectId(paidByText) THEN
       /\ resp' = Answer("createSplit", NoId, 0, 500, "failed")
       /\ inflight' = [inflight EXCEPT ![s] = [arrived EXCEPT !.pc = "done", !.code = 500]]
     ELSE
       \E per \in Round2(total, Len(validated0) + 1) :
         /\ inflight' = [inflight EXCEPT ![s] =
              [arrived EXCEPT !.pc = "event",
                 !.validated = IF splitType = "equal"
                               THEN EqualShares(validated0, per) ELSE validated0]]
         /\ UNCHANGED resp

\* the write of expense.save() and the handler's move to the debt loop
StoreEvent(s) ==
  LET f == inflight[s]
      eid == Len(expenses) + 1
  IN  /\ expenses' = Append(expenses,
           [createdBy |-> f.by,
            paidBy |-> CastObjectId(PaidByUserId(f.paidBy, f.by)),
            totalAmount |-> f.total,
            splits |-> [i \in 1..Len(f.validated) |->
                          [friendId |-> f.validated[i].friendId,
                           amount |-> f.validated[i].amount]]])
      /\ inflight' = [inflight EXCEPT ![s].pc = "debts", ![s].eid = eid, ![s].k = 1]
      /\ UNCHANGED resp

\* expense.save() fails: the outer catch answers 500
FailEvent(s, code) ==
  /\ resp' = Answer("createSplit", NoId, 0, code, "failed")
  /\ inflight' = [inflight EXCEPT ![s].pc = "done", ![s].code = code]
  /\ UNCHANGED expenses

\* a save that refuses an event whose content is already stored
SaveEventOnce(s) ==
  LET f == inflight[s]
  IN  /\ f.pc = "event"
      /\ UNCHANGED <<friends, debts, notifications, now, calc, users, req>>
      /\ IF \E e \in 1..Len(expenses) :
               expenses[e].createdBy = f.by /\ expenses[e].totalAmount = f.total
         THEN FailEvent(s, 409)
         ELSE StoreEvent(s)

\* lines 160-174: await expense.save()
SaveEvent(s) ==
  LET f == inflight[s]
  IN  /\ f.pc = "event"
      /\ UNCHANGED <<friends, debts, notifications, now, calc, users, req>>
      /\ IF ~ExpenseValid(f.validated) THEN FailEvent(s, 500) ELSE StoreEvent(s)

\* lines 185-242: one turn of the debt loop, await debt.save()
SaveDebt(s) ==
  LET f == inflight[s]
      one == <<f.validated[f.k]>>
      paidByText == PaidByUserId(f.paidBy, f.by)
  IN  /\ f.pc = "debts"
      /\ UNCHANGED <<friends, expenses, notifications, now, calc, users, req, resp>>
      /\ debts' = debts \o SplitDebts(paidByText, f.by, one, f.eid, f.splitType)
      /\ inflight' = [inflight EXCEPT
           ![s].warnings = @ \o DebtErrors(paidByText, f.by, one, f.eid, f.splitType),
           ![s].k = IF f.k = Len(f.validated) THEN 1 ELSE f.k + 1,
           ![s].pc = IF f.k = Len(f.validated) THEN "notes" ELSE "debts"]

\* a handler that notifies the first participant while the debt loop runs
NotifyEarly(s) ==
  LET f == inflight[s]
  IN  /\ f.pc = "debts"
      /\ notifications = <<>>
      /\ UNCHANGED <<friends, expenses, debts, now, calc, users, req, resp, inflight>>
      /\ notifications' = SplitNotifications(f.by, <<f.validated[1]>>, f.eid)

\* lines 254-302: one turn of the notification loop, await notification.save()
SaveNotification(s) ==
  LET f == inflight[s]
  IN  /\ f.pc = "notes"
      /\ UNCHANGED <<friends, expenses, debts, now, calc, users, req, resp>>
      /\ notifications' = notifications
                            \o SplitNotifications(f.by, <<f.validated[f.k]>>, f.eid)
      /\ inflight' = [inflight EXCEPT
           ![s].k = IF f.k = Len(f.validated) THEN 0 ELSE f.k + 1,
           ![s].pc = IF f.k = Len(f.validated) THEN "respond" ELSE "notes"]

\* lines 305-333: populate and the 201 answer
Respond(s) ==
  LET f == inflight[s]
  IN  /\ f.pc = "respond"
      /\ UNCHANGED <<friends, expenses, debts, notifications, now, calc, users, req>>
      /\ resp' = [Answer("createSplit", f.by, f.eid, 201, "") EXCEPT
                    !.warnings = f.warnings]
      /\ inflight' = [inflight EXCEPT ![s].pc = "done", ![s].code = 201]

\* the server process stops: every request between two awaits is lost
Crash ==
  /\ \E s \in Slots : Active(inflight[s])
  /\ inflight' = [s \in Slots |->
                    IF Active(inflight[s]) THEN [inflight[s] EXCEPT !.pc = "dead"]
                    ELSE inflight[s]]
  /\ UNCHANGED <<friends, expenses, debts, notifications, now, calc, users, req, resp>>

\* the splits a request of these runs names: friends of u, each at most once
StepSplits(u) ==
  LET entries == {FriendSplit(FriendIdOf(d), 0) : d \in {f \in friends : f.user = u}}
      all == UNION {[1..n -> entries] : n \in 1..MaxSplits}
  IN  {sp \in all : \A i, j \in 1..Len(sp) : sp[i].friendId = sp[j].friendId => i = j}

\* u1 submits an equal split, and may submit the same split again while the
\* first submission is still running; it may settle a stored event at any
\* moment; the server may stop.
NextSteps ==
  \/ \E u \in Requesters, total \in Totals :
       \E splits \in StepSplits(u) : Begin(1, u, total, NoText, splits, "equal")
  \/ /\ inflight[1].pc # "idle"
     /\ Begin(2, inflight[1].by, inflight[1].total, inflight[1].paidBy,
              inflight[1].splits, inflight[1].splitType)
  \/ \E s \in Slots : SaveEvent(s)
  \/ \E s \in Slots : SaveDebt(s)
  \/ \E s \in Slots : SaveNotification(s)
  \/ \E s \in Slots : Respond(s)
  \/ Crash
  \/ \E u \in Requesters, e \in 1..Len(expenses) :
       UpdateSplitExpenseStatus(u, e, "settled")

SpecSteps == Init /\ [][NextSteps]_vars

---------------------------------------------------------------------------
(* The debt status routes await by await *)

\* Each route reads the debt (await Debt.findById), checks it, changes the
\* document it holds and writes it (await debt.save()).  Another request can
\* run between the read and the write.

\* the request of slot s after its read and its checks
StatusFlight(op, u, d, status, pm) ==
  [pc |-> "save", op |-> op, by |-> u, id |-> d, seen |-> debts[d].status,
   status |-> status, pm |-> pm, code |-> 0]

Refused(f, code) == [f EXCEPT !.pc = "done", !.code = code]

\* PATCH /debts/:id/mark-paid up to its save
StartMarkPaid(s, u, d, pm) ==
  /\ inflight[s].pc = "idle"
  /\ UNCHANGED <<friends, expenses, debts, notifications, now, calc, users, req>>
  /\ LET f == StatusFlight("markPaid", u, d, "paid", pm)
     IN  IF ~Populated(debts[d].creditor) \/ ~Populated(debts[d].debtor) THEN
           /\ resp' = Answer("markPaid", u, d, 500, "failed")
           /\ inflight' = [inflight EXCEPT ![s] = Refused(f, 500)]
         ELSE IF ~IsDebtor(debts[d], u) THEN
           /\ resp' = Answer("markPaid", u, d, 403, "only the debtor")
           /\ inflight' = [inflight EXCEPT ![s] = Refused(f, 403)]
         ELSE IF AlreadyPaid(debts[d]) THEN
           /\ resp' = Answer("markPaid", u, d, 400, "already paid")
           /\ inflight' = [inflight EXCEPT ![s] = Refused(f, 400)]
         ELSE
           /\ inflight' = [inflight EXCEPT ![s] = f]
           /\ UNCHANGED resp

\* PATCH /debts/:id/settle up to its save
StartSettle(s, u, d) ==
  /\ inflight[s].pc = "idle"
  /\ UNCHANGED <<friends, expenses, debts, notifications, now, calc, users, req>>
  /\ LET f == StatusFlight("settle", u, d, "paid", "none")
     IN  IF ~Populated(debts[d].creditor) THEN
           /\ resp' = Answer("settle", u, d, 500, "failed")
           /\ inflight' = [inflight EXCEPT ![s] = Refused(f, 500)]
         ELSE IF ~IsCreditor(debts[d], u) THEN
           /\ resp' = Answer("settle", u, d, 403, "only the creditor")
           /\ inflight' = [inflight EXCEPT ![s] = Refused(f, 403)]
         ELSE IF AlreadyPaid(debts[d]) THEN
           /\ resp' = Answer("settle", u, d, 400, "already paid")
           /\ inflight' = [inflight EXCEPT ![s] = Refused(f, 400)]
         ELSE
           /\ inflight' = [inflight EXCEPT ![s] = f]
           /\ UNCHANGED resp

\* DELETE /debts/:id up to its save
StartCancel(s, u, d) ==
  /\ inflight[s].pc = "idle"
  /\ UNCHANGED <<friends, expenses, debts, notifications, now, calc, users, req>>
  /\ LET f == StatusFlight("cancel", u, d, "cancelled", "none")
     IN  IF ~Populated(debts[d].creditor) THEN
           /\ resp' = Answer("cancel", u, d, 500, "failed")
           /\ inflight' = [inflight EXCEPT ![s] = Refused(f, 500)]
         ELSE IF ~IsCreditor(debts[d], u) THEN
           /\ resp' = Answer("cancel", u, d, 403, "only the creditor")
           /\ inflight' = [inflight EXCEPT ![s] = Refused(f, 403)]
         ELSE
           /\ inflight' = [inflight EXCEPT ![s] = f]
           /\ UNCHANGED resp

\* await debt.save() writes the changed paths, whatever the store holds by
\* now, and the route answers 200
SaveStatus(s) ==
  LET f == inflight[s]
  IN  /\ f.pc = "save"
      /\ UNCHANGED <<friends, expenses, notifications, calc, users, req>>
      /\ now' = IF f.status = "paid" THEN now + 1 ELSE now
      /\ debts' = [debts EXCEPT ![f.id] =
           IF f.status = "paid" THEN PaidDebt(@, now + 1, f.pm)
           ELSE [@ EXCEPT !.status = "cancelled"]]
      /\ resp' = Answer(f.op, f.by, f.id, 200, "")
      /\ inflight' = [inflight EXCEPT ![s] = Refused(f, 200)]

\* u1 records a debt with u2; each of the two sends status requests, two of
\* which may be under way at the same time.
NextRace ==
  \/ /\ Len(debts) < MaxDebts
     /\ \E a \in DebtAmounts, type \in DebtTypes :
          CreateDebt("u1", ToString("u2"), a, type)
  \/ \E s \in Slots, u \in Editors, d \in 1..Len(debts), pm \in PaymentMethods :
       StartMarkPaid(s, u, d, pm)
  \/ \E s \in Slots, u \in Editors, d \in 1..Len(debts) : StartSettle(s, u, d)
  \/ \E s \in Slots, u \in Editors, d \in 1..Len(debts) : StartCancel(s, u, d)
  \/ \E s \in Slots : SaveStatus(s)

SpecRace == InitDebt /\ [][NextRace]_vars

---------------------------------------------------------------------------
(* DELETE /split-expenses/:expenseId *)

\* what is left at the place of a removed split event: findById finds nothing
DeletedEvent == [createdBy |-> NoId, paidBy |-> NoId, totalAmount |-> 0, splits |-> <<>>]

EventExists(e) == e \in 1..Len(expenses) /\ expenses[e] # DeletedEvent

\* the route removes the SplitExpense document and nothing else
DeleteSplitExpense(u, e) ==
  /\ UNCHANGED <<friends, debts, notifications, now, calc, users, req, inflight>>
  /\ IF ~EventExists(e) THEN
       /\ resp' = Answer("deleteSplit", u, e, 404, "not found")
       /\ UNCHANGED expenses
     ELSE IF ~HasPermission(expenses[e], u) THEN
       /\ resp' = Answer("deleteSplit", u, e, 403, "not authorized")
       /\ UNCHANGED expenses
     ELSE
       /\ expenses' = [expenses EXCEPT ![e] = DeletedEvent]
       /\ resp' = Answer("deleteSplit", u, e, 200, "")

\* u1 creates one split event; any account asks for its removal.
NextDelete ==
  \/ /\ expenses = <<>>
     /\ \E u \in Requesters, total \in Totals, paidBy \in PaidByInputs,
           splitType \in SplitTypes :
          \E splits \in SplitInputs(u, splitType) :
            CreateSplitExpense(u, total, paidBy, splits, splitType) /\ UNCHANGED req
  \/ \E u \in Accounts, e \in 1..Len(expenses) : DeleteSplitExpense(u, e)

SpecDelete == Init /\ [][NextDelete]_vars

---------------------------------------------------------------------------
(* The cascade among several events and manual debts *)

ManualDebts ==
  LET Manual(debt) == debt.type = "manual"
  IN  SelectSeq(debts, Manual)

\* the stored event lists the friends of the request, in its order
SameSplits(expense, splits) ==
  /\ Len(expense.splits) = Len(splits)
  /\ \A i \in 1..Len(splits) : expense.splits[i].friendId = splits[i].friendId

\* u1 creates equal splits with two of its friends, no list of friends twice,
\* and records manual debts; it cancels single debts and settles or cancels
\* whole events.
NextCascade ==
  \/ \E u \in Requesters, total \in Totals :
       \E splits \in {sp \in StepSplits(u) : Len(sp) = 2} :
         /\ \A e \in 1..Len(expenses) : ~SameSplits(expenses[e], splits)
         /\ CreateSplitExpense(u, total, NoText, splits, "equal") /\ UNCHANGED req
  \/ /\ Len(ManualDebts) < MaxDebts
     /\ \E u \in Requesters, a \in DebtAmounts :
          CreateDebt(u, ToString("u2"), a, "owe-me")
  \/ \E u \in Requesters, d \in 1..Len(debts) : CancelDebt(u, d)
  \/ \E u \in Requesters, e \in 1..Len(expenses), status \in ExpenseStatuses :
       UpdateSplitExpenseStatus(u, e, status)

SpecCascade == Init /\ [][NextCascade]_vars

---------------------------------------------------------------------------
(* Properties of the share calculator (SpecShare) *)

Abs(x) == IF x < 0 THEN -x ELSE x

\* what the n participants and the payer account for, against the total
ShareGap == Abs((calc.n + 1) * calc.share - calc.T)

\* C10 as stated: for every equal split of T among n participants and the
\* payer, n shares of round2(T / (n + 1)) plus one more per-person share
\* equal T within one cent.
C10_SumWithinOneCent == calc.pc = "done" => ShareGap <= 1

\* C10: for every equal split of T among n participants and the payer, the
\* n + 1 per-person shares differ from T by at most half a cent per person,
\* (n + 1) * 0.005; one cent is guaranteed only up to two people.
C10_SumWithinHalfCentEach == calc.pc = "done" => 2 * ShareGap <= calc.n + 1

\* a split among four people that is two cents off the total
C10_TwoCentsOff == calc.pc = "done" /\ calc.n = 3 /\ ShareGap = 2

---------------------------------------------------------------------------
(* Properties of manual debts and status transitions (SpecDebt) *)

DebtIds == 1..Len(debts)

\* the requester and the debt of the request a step answers: every status
\* handler echoes both in its answer
Requester == Accounts \cap {resp'.user}
Target == DebtIds \cap {resp'.id}

\* C1: every persisted debt record has a creditor different from its
\* debtor, whichever operation created it.
C1_NoSelfDebt == \A d \in DebtIds : debts[d].creditor # debts[d].debtor

\* C3: once a debt's status is paid or cancelled, no operation changes it.
C3_TerminalStatusKept ==
  [][\A d \in DebtIds :
       debts[d].status \in {"paid", "cancelled"} => debts'[d].status = debts[d].status]_vars

\* the debtor's mark-as-paid request, through the route or the controller
MarkAsPaidStep(u, d) ==
  /\ resp'.op \in {"markPaid", "markDebtAsPaid"}
  /\ \E pm \in PaymentMethods : MarkPaid(u, d, pm) \/ MarkDebtAsPaid(u, d, pm)

C8_OnlyThePartiesTransition ==
  [][\A u \in Requester, d \in Target :
       /\ (resp'.op = "markPaid" /\ \E pm \in PaymentMethods : MarkPaid(u, d, pm)) =>
            IF u = debts[d].debtor
            THEN debts[d].status = "pending" /\ Populated(debts[d].creditor)
                   => debts'[d].status = "paid"
            ELSE debts' = debts /\ resp'.code >= 400
       /\ (resp'.op = "settle" /\ SettleDebt(u, d)) =>
            IF u = debts[d].creditor
            THEN debts[d].status = "pending" => debts'[d].status = "paid"
            ELSE debts' = debts /\ resp'.code >= 400
       /\ (resp'.op = "cancel" /\ CancelDebt(u, d)) =>
            IF u = debts[d].creditor
            THEN debts[d].status = "pending" => debts'[d].status = "cancelled"
            ELSE debts' = debts /\ resp'.code >= 400]_vars

\* the debtor asked to settle its own pending debt and was refused
C8_DebtorCannotSettle ==
  /\ resp.op = "settle" /\ resp.code = 403
  /\ debts[resp.id].debtor = resp.user
  /\ debts[resp.id].creditor # resp.user
  /\ debts[resp.id].status = "pending"

---------------------------------------------------------------------------
(* Properties of split expenses (Spec) *)

ExpenseIds == 1..Len(expenses)

\* the account behind a split's friendId
ParticipantOf(fid) == (CHOOSE f \in friends : FriendIdOf(f) = fid).friendUser

\* the debt records linked to a split event, in creation order
LinkedDebts(e) ==
  LET Linked(debt) == debt.relatedExpenseId = e
  IN  SelectSeq(debts, Linked)

\* the splits of an event whose share a debt record can carry
DebtEntries(e) ==
  LET Owed(split) == split.amount >= MinDebtAmount
  IN  SelectSeq(expenses[e].splits, Owed)

RECURSIVE SumAmounts(_)
SumAmounts(splits) ==
  IF splits = <<>> THEN 0 ELSE Head(splits).amount + SumAmounts(Tail(splits))

\* the rule table for requester R, payer Y and participant P
RuleTable(R, Y, P) ==
  IF Y = R THEN <<R, P>> ELSE IF Y = P THEN <<P, R>> ELSE <<Y, P>>

\* C2: for requester R, payer Y and every resolved participant P with share
\* s, the debt is (R, P, s) if Y = R, else (P, R, s) if Y = P, else (Y, P, s).
C2_DirectionFollowsRuleTable ==
  \A e \in ExpenseIds :
    LET linked == LinkedDebts(e)
        entries == DebtEntries(e)
    IN  /\ Len(linked) = Len(entries)
        /\ \A i \in 1..Len(entries) :
             /\ <<linked[i].creditor, linked[i].debtor>> =
                  RuleTable(expenses[e].createdBy, expenses[e].paidBy,
                            ParticipantOf(entries[i].friendId))
             /\ linked[i].amount = entries[i].amount

\* C5: when the creator or payer sets a split event to settled (cancelled),
\* every pending debt linked to it becomes paid (cancelled) and none linked
\* to it stays pending, whoever the creditor and debtor of each debt are.
C5_CascadeSettlesAllPending ==
  [][\A u \in Accounts, e \in ExpenseIds, status \in {"settled", "cancelled"} :
       (UpdateSplitExpenseStatus(u, e, status)
          /\ (u = expenses[e].createdBy \/ u = expenses[e].paidBy))
       => \A d \in DebtIds :
            debts[d].relatedExpenseId = e =>
              /\ debts'[d].status # "pending"
              /\ debts[d].status = "pending" =>
                   debts'[d].status = (IF status = "settled" THEN "paid" ELSE "cancelled")
              /\ debts[d].status # "pending" => debts'[d] = debts[d]]_vars

\* the creator settled an event with two pending debts, one of them between
\* two other accounts, and both are paid as of now
C5_TwoDebtsSettledByCreator ==
  /\ resp.op = "updateStatus" /\ resp.code = 200 /\ resp.msg = "settled"
  /\ Len(LinkedDebts(resp.id)) = 2
  /\ \A d \in DebtIds : debts[d].status = "paid" /\ debts[d].paidAt = now
  /\ \E d \in DebtIds : resp.user \notin {debts[d].creditor, debts[d].debtor}

\* C6: an explicit-mode request whose provided shares sum to something more
\* than one cent away from the total is rejected as a validation error and
\* writes no split event, debt record or notification.
C6_SumMismatchRejected ==
  [][expenses = <<>> =>
       \A u \in Accounts, total \in Totals, paidBy \in PaidByInputs :
         \A splits \in SplitInputs(u, "exact") :
           (CreateSplitExpense(u, total, paidBy, splits, "exact")
              /\ Abs(SumAmounts(splits) - total) > 1)
           => (resp'.code >= 400 /\ UNCHANGED <<expenses, debts, notifications>>)]_vars

\* the debt records of an event paid by participant B, against the entries
PayerIsParticipant(e) ==
  /\ expenses[e].paidBy # expenses[e].createdBy
  /\ \E i \in 1..Len(expenses[e].splits) :
       ParticipantOf(expenses[e].splits[i].friendId) = expenses[e].paidBy

\* the entries of an event that are not the payer's own
OthersEntries(e) ==
  LET Other(split) == ParticipantOf(split.friendId) # expenses[e].paidBy
  IN  SelectSeq(expenses[e].splits, Other)

C9_SharesSumToTotal ==
  \A e \in ExpenseIds :
    Abs(SumAmounts(expenses[e].splits) - expenses[e].totalAmount) <= 1

\* C16: updateSplitExpenseStatus by an account that is neither the creator
\* nor the payer of the split event is answered 403 and changes neither the
\* event nor any debt record.
C16_OutsiderCannotUpdateStatus ==
  [][\A u \in Accounts \cap {resp'.user}, e \in ExpenseIds \cap {resp'.id},
        status \in ExpenseStatuses :
       (resp'.op = "updateStatus" /\ UpdateSplitExpenseStatus(u, e, status)
          /\ u \notin {expenses[e].createdBy, expenses[e].paidBy})
       => (resp'.code = 403 /\ expenses' = expenses /\ debts' = debts)]_vars

\* an outsider asked to settle an event that still has a pending debt
C16_OutsiderRefused ==
  /\ resp.op = "updateStatus" /\ resp.code = 403 /\ resp.msg = "settled"
  /\ resp.user \notin {expenses[resp.id].createdBy, expenses[resp.id].paidBy}
  /\ \E d \in DebtIds : debts[d].relatedExpenseId = resp.id /\ debts[d].status = "pending"

---------------------------------------------------------------------------
(* Properties of one split request (SpecRequest) *)

\* the request on record is a split request; its sender and its body
Asked == req.kind = "split"

\* nothing of a split event is in the store
NothingStored == expenses = <<>> /\ debts = <<>> /\ notifications = <<>>

\* the body passes the checks of required fields and of the total
WellFormed(body) ==
  /\ body.description
  /\ body.splits # <<>>
  /\ body.totalAmount.form = "number"
  /\ body.totalAmount.value > 0

\* an entry that names an active friend link of u whose account exists
Resolves(u, split) ==
  /\ split.kind = "friend"
  /\ \E f \in friends :
       /\ FriendIdOf(f) = split.friendId /\ f.user = u /\ f.status = "active"
       /\ f.friendUser \in users

AllResolve(u, body) == \A i \in 1..Len(body.splits) : Resolves(u, body.splits[i])

\* an equal split paid by the requester in which every entry resolves
EqualByRequester ==
  /\ Asked
  /\ WellFormed(req.body)
  /\ req.body.splitType = "equal"
  /\ req.body.paidBy \in {NoText, SelfText, ToString(req.by)}
  /\ AllResolve(req.by, req.body)

\* C11 as stated: an equal split paid by the requester with n resolved
\* participants creates exactly n debt records, each of round2(total / (n + 1))
\* with the requester as creditor.
C11_EqualSplitMakesNDebts ==
  EqualByRequester =>
    LET n == Len(req.body.splits)
    IN  /\ resp.code = 201
        /\ Len(debts) = n
        /\ \A d \in 1..Len(debts) :
             /\ debts[d].amount \in Round2(req.body.totalAmount.value, n + 1)
             /\ debts[d].creditor = req.by

\* C11: an equal split paid by the requester with n resolved participants
\* creates exactly n debt records, each of round2(total / (n + 1)) owed by a
\* participant to the requester, when that share is at least one cent; when
\* the share rounds to zero it creates none and lists n debt errors.
C11_EqualSplitMakesNDebtsOfACent ==
  EqualByRequester =>
    LET n == Len(req.body.splits)
    IN  /\ resp.code = 201
        /\ \E per \in Round2(req.body.totalAmount.value, n + 1) :
             IF per >= MinDebtAmount
             THEN /\ Len(debts) = n
                  /\ resp.warnings = <<>>
                  /\ \A d \in 1..n :
                       /\ debts[d].amount = per
                       /\ debts[d].creditor = req.by
                       /\ debts[d].debtor = ParticipantOf(req.body.splits[d].friendId)
             ELSE debts = <<>> /\ Len(resp.warnings) = n

\* ten cents split with u2 and u3: two debts of three cents owed to u1
C11_TwoDebtsOfThreeCents ==
  /\ EqualByRequester
  /\ req.body.totalAmount.value = 10
  /\ Len(debts) = 2
  /\ {debts[1].debtor, debts[2].debtor} = {"u2", "u3"}
  /\ \A d \in 1..2 : debts[d].amount = 3 /\ debts[d].creditor = "u1"

\* C12: a request in which no participant resolves is refused with the
\* "no valid participants" validation error and nothing is stored.
C12_NoParticipantNoEvent ==
  (/\ Asked
   /\ WellFormed(req.body)
   /\ \A i \in 1..Len(req.body.splits) :
        /\ req.body.splits[i].kind = "friend"
        /\ ~Resolves(req.by, req.body.splits[i]))
  => (resp.code = 400 /\ resp.msg = "no valid friends" /\ NothingStored)

\* a share the Debt schema refuses (amount below its minimum)
ShareTooSmall(split) == split.amount < MinDebtAmount
ShareOwed(split) == ~ShareTooSmall(split)

\* an exact split in which every entry resolves and some debt cannot be saved
SomeDebtFails ==
  /\ Asked
  /\ WellFormed(req.body)
  /\ req.body.splitType = "exact"
  /\ AllResolve(req.by, req.body)
  /\ \E i \in 1..Len(req.body.splits) : ShareTooSmall(req.body.splits[i])

\* C13: when the debt record of a participant cannot be saved, the failure is
\* listed under warnings for that participant, the other participants still get
\* their debt records, the split event stays stored and the answer is success.
C13_DebtFailureIsListedAndLoopGoesOn ==
  SomeDebtFails =>
    LET failed == SelectSeq(req.body.splits, ShareTooSmall)
        owed == SelectSeq(req.body.splits, ShareOwed)
    IN  /\ resp.code = 201
        /\ Len(expenses) = 1
        /\ resp.warnings = [i \in 1..Len(failed) |-> failed[i].friendId]
        /\ Len(debts) = Len(owed)
        /\ \A i \in 1..Len(owed) :
             /\ debts[i].amount = owed[i].amount
             /\ debts[i].relatedExpenseId = resp.id

\* the first participant's debt fails, the second participant's debt is saved
C13_FirstFailsSecondSaved ==
  /\ SomeDebtFails
  /\ Len(req.body.splits) = 2
  /\ ShareTooSmall(req.body.splits[1])
  /\ ShareOwed(req.body.splits[2])
  /\ resp.code = 201
  /\ resp.warnings = <<req.body.splits[1].friendId>>
  /\ Len(debts) = 1
  /\ Len(expenses) = 1

\* the friendIds listed under warnings
Warned == {resp.warnings[i] : i \in 1..Len(resp.warnings)}

\* the accounts that received a notification of the stored event
Notified == {notifications[i].userId : i \in 1..Len(notifications)}

\* the event is stored, or some debt record is
SomethingStored == expenses # <<>> \/ debts # <<>>

\* every entry of the stored event has its debt record or its warning
EveryDebtAccountedFor ==
  /\ Len(debts) + Len(resp.warnings) = Len(expenses[1].splits)
  /\ \A w \in Warned : \E i \in 1..Len(expenses[1].splits) : expenses[1].splits[i].friendId = w

C15_MalformedRequestRefused ==
  (/\ Asked
   /\ \/ ~req.body.description
      \/ req.body.splits = <<>>
      \/ req.body.totalAmount.form # "number"
      \/ req.body.totalAmount.value <= 0)
  => (resp.code >= 400 /\ NothingStored)

\* the entries of the request that resolve, as the stored event lists them
ResolvingEntries ==
  LET Ok(split) == Resolves(req.by, split)
      kept == SelectSeq(req.body.splits, Ok)
  IN  [i \in 1..Len(kept) |-> kept[i].friendId]

\* C17: a participant that does not resolve (no active link of the requester,
\* or a link whose target account is gone) is skipped without failing the
\* request: the event is created for the participants that do resolve.
C17_UnresolvedParticipantSkipped ==
  (/\ Asked
   /\ WellFormed(req.body)
   /\ \A i \in 1..Len(req.body.splits) : req.body.splits[i].kind = "friend"
   /\ \E i \in 1..Len(req.body.splits) : ~Resolves(req.by, req.body.splits[i])
   /\ \E i \in 1..Len(req.body.splits) : Resolves(req.by, req.body.splits[i]))
  => /\ resp.code = 201
     /\ Len(expenses) = 1
     /\ [i \in 1..Len(expenses[1].splits) |-> expenses[1].splits[i].friendId]
          = ResolvingEntries

\* C18: the resolver never resolves a participant to the requesting account:
\* no stored split event lists its creator among its participants.
C18_NoParticipantIsTheRequester ==
  \A e \in 1..Len(expenses) : \A i \in 1..Len(expenses[e].splits) :
    ParticipantOf(expenses[e].splits[i].friendId) # expenses[e].createdBy

\* C19: a share given by a contact address only is kept in the stored event
\* and does not make the request fail.
C19_EmailOnlyShareKept ==
  (/\ Asked
   /\ WellFormed(req.body)
   /\ \E i \in 1..Len(req.body.splits) : req.body.splits[i].kind = "email"
   /\ \A i \in 1..Len(req.body.splits) :
        req.body.splits[i].kind = "friend" => Resolves(req.by, req.body.splits[i]))
  => /\ resp.code = 201
     /\ Len(expenses) = 1
     /\ Len(expenses[1].splits) = Len(req.body.splits)

\* C20: every debt record a split request creates is pending, of type split,
\* linked to the event the same request stored and carries the share of its
\* participant; every account-linked participant has one attempt, which is
\* either its debt record or its warning.
C20_SplitDebtShape ==
  (Asked /\ resp.code = 201) =>
    LET owed == SelectSeq(expenses[1].splits, ShareOwed)
    IN  /\ Len(expenses) = 1
        /\ resp.id = 1
        /\ Len(debts) + Len(resp.warnings) = Len(expenses[1].splits)
        /\ Len(debts) = Len(owed)
        /\ \A i \in 1..Len(debts) :
             /\ debts[i].status = "pending"
             /\ debts[i].type = "split"
             /\ debts[i].relatedExpenseId = resp.id
             /\ debts[i].amount = owed[i].amount

\* an exact split of two shares of five cents stored with its two debt records
C20_TwoLinkedDebtsOfFiveCents ==
  /\ Asked
  /\ resp.code = 201
  /\ req.body.splitType = "exact"
  /\ Len(debts) = 2
  /\ resp.warnings = <<>>
  /\ \A i \in 1..2 : debts[i].amount = 5 /\ debts[i].relatedExpenseId = 1

---------------------------------------------------------------------------
(* Properties of the edit route (SpecUpdate) *)

\* what PUT /debts/:id can change of a debt record
Editable(debt) == <<debt.amount, debt.description, debt.dueDate>>

\* C21: the amount, description and due date of a debt change only by an
\* edit of its creditor while it is pending; an edit of a paid or cancelled
\* debt is refused and leaves every record as it was.
C21_EditOnlyWhilePendingByCreditor ==
  [][/\ \A d \in DebtIds :
          Editable(debts'[d]) # Editable(debts[d]) =>
            /\ debts[d].status = "pending"
            /\ resp'.op = "updateDebt" /\ resp'.code = 200 /\ resp'.id = d
            /\ ToString(debts[d].creditor) = ToString(resp'.user)
     /\ \A d \in Target :
          (resp'.op = "updateDebt" /\ debts[d].status # "pending") =>
            (resp'.code >= 400 /\ debts' = debts)]_vars

\* the creditor's edit of a debt that is already paid has been refused
C21_EditOfPaidDebtRefused ==
  /\ resp.op = "updateDebt"
  /\ resp.code = 400
  /\ resp.msg = "not pending"
  /\ debts[resp.id].status = "paid"
  /\ debts[resp.id].creditor = resp.user
  /\ Editable(debts[resp.id]) = <<5, "as created", 0>>

---------------------------------------------------------------------------
(* Properties of createSplitExpense await by await (SpecSteps) *)

\* both submissions of the same split have been answered
BothAnswered ==
  /\ \A s \in Slots : inflight[s].pc = "done"
  /\ SameContent(inflight[1], inflight[2])

\* the debt records of event e that name participant entry v
DebtsOf(e, v) ==
  {d \in DebtIds : /\ debts[d].relatedExpenseId = e
                   /\ debts[d].debtor = v.userId
                   /\ debts[d].amount = v.amount}

\* C22: two identical split requests of one user that run at the same time
\* both succeed under every interleaving: two events are stored and every
\* participant has two debt records, one per event, with the same creditor,
\* debtor and amount.
C22_DoubleSubmissionDoublesDebts ==
  BothAnswered =>
    LET f == inflight[1]
        g == inflight[2]
    IN  /\ f.code = 201 /\ g.code = 201
        /\ Len(expenses) = 2
        /\ f.eid # g.eid
        /\ Len(debts) = 2 * Len(f.validated)
        /\ \A i \in 1..Len(f.validated) :
             \E d1 \in DebtsOf(f.eid, f.validated[i]), d2 \in DebtsOf(g.eid, f.validated[i]) :
               /\ DebtsOf(f.eid, f.validated[i]) = {d1}
               /\ DebtsOf(g.eid, f.validated[i]) = {d2}
               /\ debts[d1].creditor = f.by /\ debts[d2].creditor = f.by

\* both submissions answered, their debt writes having alternated
C22_FourDebtsInterleaved ==
  /\ BothAnswered
  /\ Len(debts) = 4
  /\ debts[1].relatedExpenseId # debts[2].relatedExpenseId
  /\ debts[2].relatedExpenseId # debts[3].relatedExpenseId
  /\ \A s \in Slots : inflight[s].code = 201

\* the debt records and the notifications that name event e, in write order
DebtsLinkedTo(e) ==
  LET Linked(debt) == debt.relatedExpenseId = e
  IN  SelectSeq(debts, Linked)

NotesLinkedTo(e) ==
  LET Linked(note) == note.relatedId = e
  IN  SelectSeq(notifications, Linked)

\* C23: within one request the event is written first, then the debt records
\* in participant order, then the notifications in participant order: a debt
\* record or notification names a stored event, and a notification of a
\* request exists only when every debt write of that request has been tried.
C23_EventThenDebtsThenNotifications ==
  /\ \A d \in DebtIds : debts[d].relatedExpenseId \in 1..Len(expenses)
  /\ \A n \in 1..Len(notifications) : notifications[n].relatedId \in 1..Len(expenses)
  /\ \A s \in Slots :
       LET f == inflight[s]
           linked == DebtsLinkedTo(f.eid)
           notes == NotesLinkedTo(f.eid)
       IN  f.eid # 0 =>
             /\ Len(linked) <= Len(f.validated)
             /\ \A i \in 1..Len(linked) : linked[i].debtor = f.validated[i].userId
             /\ Len(notes) <= Len(f.validated)
             /\ \A i \in 1..Len(notes) : notes[i].userId = f.validated[i].userId
             /\ notes # <<>> => Len(linked) + Len(f.warnings) = Len(f.validated)

\* the server stopped after the first of two debt writes: the event and one
\* debt record are stored, the second debt record and the notifications are not
C23_StoppedBetweenDebtWrites ==
  /\ inflight[1].pc = "dead"
  /\ inflight[2].pc = "idle"
  /\ Len(inflight[1].validated) = 2
  /\ Len(expenses) = 1
  /\ Len(debts) = 1
  /\ notifications = <<>>

\* C24: under every interleaving of createSplitExpense and
\* updateSplitExpenseStatus on one event, while the event stands settled (the
\* last answer given is the successful settle of that event) no debt record
\* linked to it is pending.
C24_SettledEventHasNoPendingDebt ==
  (resp.op = "updateStatus" /\ resp.code = 200 /\ resp.msg = "settled") =>
    \A d \in DebtIds :
      debts[d].relatedExpenseId = resp.id => debts[d].status # "pending"

---------------------------------------------------------------------------
(* Properties of the debt status routes await by await (SpecRace) *)

\* C25: of two status requests of different routes on one debt that both
\* found it pending, at most one reports success, whatever the interleaving.
C25_AtMostOneStatusRequestSucceeds ==
  (/\ \A s \in Slots : inflight[s].pc = "done" /\ inflight[s].seen = "pending"
   /\ inflight[1].id = inflight[2].id
   /\ inflight[1].op # inflight[2].op)
  => ~(inflight[1].code = 200 /\ inflight[2].code = 200)

---------------------------------------------------------------------------
(* Properties of the removal of split events (SpecDelete) *)

\* C26: every debt record that names a split event names one that still
\* exists; after the removal of an event no debt record linked to it remains.
C26_LinkedEventExists ==
  \A d \in DebtIds :
    debts[d].relatedExpenseId # 0 => EventExists(debts[d].relatedExpenseId)

---------------------------------------------------------------------------
(* Further properties of the split ledger (Spec) *)

\* C27: the creditor and the debtor of every debt record of a split event are
\* existing accounts: a paidBy that names no account never becomes a creditor.
C27_SplitDebtPartiesExist ==
  \A d \in DebtIds :
    debts[d].type = "split" =>
      UserExists(debts[d].creditor) /\ UserExists(debts[d].debtor)

---------------------------------------------------------------------------
(* Further properties of the share calculator (SpecShare) *)

\* C28: in an equal split of T among n participants and the payer, the n
\* participant shares together never exceed T.
C28_ParticipantSharesWithinTotal ==
  calc.pc = "done" => calc.n * calc.share <= calc.T

---------------------------------------------------------------------------
(* Properties of the cascade among several events (SpecCascade) *)

\* C29: the cascade of updateSplitExpenseStatus on event e changes only debt
\* records that are linked to e and pending; paid or cancelled records of e,
\* records of other events and manual records stay as they are, and so do
\* the shares, total, payer and creator of every event.
C29_CascadeFrame ==
  [][resp'.op = "updateStatus" =>
       /\ expenses' = expenses
       /\ Len(debts') = Len(debts)
       /\ \A d \in DebtIds :
            (debts[d].relatedExpenseId # resp'.id \/ debts[d].status # "pending")
              => debts'[d] = debts[d]]_vars

\* an event has just been settled: one of its debts is paid, another that was
\* cancelled before is still cancelled, and the pending debts of the other
\* event and the pending manual debt are as they were
C29_SettledBesideOtherDebts ==
  /\ resp.op = "updateStatus" /\ resp.code = 200 /\ resp.msg = "settled"
  /\ \E d \in DebtIds : debts[d].relatedExpenseId = resp.id /\ debts[d].status = "paid"
  /\ \E d \in DebtIds : debts[d].relatedExpenseId = resp.id /\ debts[d].status = "cancelled"
  /\ \E d \in DebtIds : /\ debts[d].type = "split"
                        /\ debts[d].relatedExpenseId # resp.id
                        /\ debts[d].status = "pending"
  /\ \E d \in DebtIds : debts[d].type = "manual" /\ debts[d].status = "pending"

\* C30: the status of a split event is durable: after a successful
\* updateSplitExpenseStatus(e, s) the stored event has status s.
C30_StatusIsStored ==
  (resp.op = "updateStatus" /\ resp.code = 200) =>
    StatusOf(expenses[resp.id]) = resp.msg

====
